---- MODULE Spec2Model ----
(***************************************************************************)
(* The build-task scheduler of scripts/ninja-team.py                       *)
(* (NinjaTeamOrchestrator): agent registry, build plan, worker pool,       *)
(* heartbeat monitor and the main thread of execute_build.                 *)
(*                                                                         *)
(* Tasks are identified by their target (after optimize_build_plan the     *)
(* task list holds one task per target).  The agent registry is a Python   *)
(* dict: a sequence of records in insertion order.  Every `with self.lock` *)
(* block is one atomic step; code outside the lock is split at the points  *)
(* where another thread can observe it.                                    *)
(***************************************************************************)
EXTENDS Integers, Sequences, FiniteSets, TLC

VARIABLES
    mode,             \* self.mode
    agents,           \* self.agents: records in dict insertion order
    build_tasks,      \* self.build_tasks: sequence of targets (the pending list)
    completed_tasks,  \* self.completed_tasks: sequence of targets
    tasks,            \* the BuildTask objects, by target
    build_graph,      \* self.build_graph: target -> dependency list
    stop_event,       \* self.stop_event
    main_pc,          \* position of the main thread
    workers,          \* the executor threads: position, held task, held agent
    hb_pc,            \* position of the heartbeat thread
    now,              \* time.time() when the heartbeat monitor last read it
    monitor,          \* the thread of _build_progress_monitor: its position
                      \* and its locals total_tasks, completed, progress and
                      \* last_progress
    probed,           \* the hosts discover_agents has probed, in the order of
                      \* the hosts file, each with the answer its probe got
    history           \* history variable, by target: the priority the plan
                      \* gave the task (p0) and how often it was re-queued
                      \* after a failed execution (failed)

vars == <<mode, agents, build_tasks, completed_tasks, tasks, build_graph,
          stop_event, main_pc, workers, hb_pc, now, probed, history, monitor>>

----------------------------------------------------------------------------
(* Bounds of the model *)

\* longest dependency list of a target in the planning specification
MaxDeps == 2
\* failed executions that the engine specification follows in one run
MaxFails == 2
\* self.config["heartbeat_interval"], the default
heartbeat_interval == 5
\* longest hosts file of the discovery specification
MaxHosts == 3
\* the clock stops here: one second after an agent registered at 0 goes
\* stale under the default interval
MaxTime == 16
\* self.stop_event.wait(interval) returns on time or a second late
WaitTimes == {heartbeat_interval, heartbeat_interval + 1}

Targets == {"A", "B", "C"}
\* a dependency id that is the target of no task
Unknown == "X"
None == "None"

Modes == {"single", "distributed", "recursive", "cloud"}

Range(s) == {s[i] : i \in DOMAIN s}

\* the pop forgotten: the task stays in the list
keep_at(s, i) == s

\* self.build_tasks.pop(i)
RemoveAt(s, i) == SubSeq(s, 1, i - 1) \o SubSeq(s, i + 1, Len(s))

\* the larger of the two counts
Max(a, b) == IF a >= b THEN a ELSE b

Min(a, b) == IF a <= b THEN a ELSE b

----------------------------------------------------------------------------
(* Pure functions of the plan *)

\* the sort left out: the list in the order it has
unsorted(s, prio) == s

\* list.sort(key=lambda t: t.priority, reverse=True): stable, descending
RECURSIVE sort_by_priority(_, _)
sort_by_priority(s, prio) ==
    IF s = <<>> THEN <<>>
    ELSE LET rest == sort_by_priority(SubSeq(s, 1, Len(s) - 1), prio)
             x    == s[Len(s)]
             k    == Cardinality({i \in DOMAIN rest : prio[rest[i]] >= prio[x]})
         IN  SubSeq(rest, 1, k) \o <<x>> \o SubSeq(rest, k + 1, Len(rest))

\* the nested visit() of _topological_sort; st holds visited, temp_visited
\* and result, and counts the calls of visit(); known is the key set of
\* target_to_task
RECURSIVE visit(_, _, _, _), visit_deps(_, _, _, _)
visit_deps(deps, st, graph, known) ==
    IF deps = <<>> THEN st
    ELSE visit_deps(Tail(deps),
                    IF Head(deps) \in known
                    THEN visit(Head(deps), st, graph, known)
                    ELSE st,
                    graph, known)

\* visit() that appends the task before it visits the dependencies
visit_preorder(target, st, graph, known) ==
    IF target \in st.temp_visited THEN [st EXCEPT !.calls = @ + 1]
    ELSE IF target \in st.visited THEN [st EXCEPT !.calls = @ + 1]
    ELSE LET st1 == [st EXCEPT !.temp_visited = @ \cup {target},
                               !.calls = @ + 1,
                               !.result = IF target \in known
                                          THEN Append(@, target) ELSE @]
             st2 == visit_deps(IF target \in DOMAIN graph THEN graph[target] ELSE <<>>,
                               st1, graph, known)
         IN  [st2 EXCEPT !.visited = @ \cup {target},
                         !.temp_visited = @ \ {target}]

\* visit() without `if target in visited: return`
visit_again(target, st, graph, known) ==
    IF target \in st.temp_visited THEN [st EXCEPT !.calls = @ + 1]
    ELSE LET st1 == [st EXCEPT !.temp_visited = @ \cup {target}, !.calls = @ + 1]
             st2 == visit_deps(IF target \in DOMAIN graph THEN graph[target] ELSE <<>>,
                               st1, graph, known)
         IN  [visited      |-> st2.visited \cup {target},
              temp_visited |-> st2.temp_visited \ {target},
              result       |-> IF target \in known
                               THEN Append(st2.result, target)
                               ELSE st2.result,
              calls        |-> st2.calls]

visit(target, st, graph, known) ==
    IF target \in st.temp_visited THEN [st EXCEPT !.calls = @ + 1]
    ELSE IF target \in st.visited THEN [st EXCEPT !.calls = @ + 1]
    ELSE LET st1 == [st EXCEPT !.temp_visited = @ \cup {target}, !.calls = @ + 1]
             st2 == visit_deps(IF target \in DOMAIN graph THEN graph[target] ELSE <<>>,
                               st1, graph, known)
         IN  [visited      |-> st2.visited \cup {target},
              temp_visited |-> st2.temp_visited \ {target},
              result       |-> IF target \in known
                               THEN Append(st2.result, target)
                               ELSE st2.result,
              calls        |-> st2.calls]

RECURSIVE visit_each(_, _, _, _)
visit_each(list, st, graph, known) ==
    IF list = <<>> THEN st
    ELSE visit_each(Tail(list),
                    IF Head(list) \notin st.visited
                    THEN visit(Head(list), st, graph, known)
                    ELSE st,
                    graph, known)

\* the traversal of _topological_sort over the task list
traverse(list, graph) ==
    visit_each(list,
               [visited |-> {}, temp_visited |-> {}, result |-> <<>>, calls |-> 0],
               graph, Range(list))

\* _topological_sort: the targets of the task list in visiting order
topological_sort(list, graph) == traverse(list, graph).result

\* sum(1 for t in self.build_graph.values() if task.target in t)
dependents_count(target, graph) ==
    Cardinality({u \in DOMAIN graph : target \in Range(graph[u])})

\* the priority optimize_build_plan gives the task at index i (from 0) of
\* the topological order
plan_priority(i, target, graph) == i + (dependents_count(target, graph) * 10)

\* the priorities optimize_build_plan assigns, by target
plan_priorities(list, graph) ==
    LET sorted == topological_sort(list, graph)
    IN  [t \in Range(sorted) |->
            plan_priority((CHOOSE i \in DOMAIN sorted : sorted[i] = t) - 1, t, graph)]

----------------------------------------------------------------------------
(* Inputs *)

\* the dependency graphs parse_build_tasks hands to the engine
\* specification: the task list in listing order and each target's
\* dependency list
Graphs ==
    { [list |-> <<"A", "B", "C">>,
       deps |-> [t \in {"A", "B", "C"} |-> IF t = "A" THEN <<>> ELSE <<"A">>]],
      [list |-> <<"A", "B">>,
       deps |-> [t \in {"A", "B"} |-> IF t = "A" THEN <<Unknown>> ELSE <<>>]],
      [list |-> <<"A", "B", "C">>,
       deps |-> [t \in {"A", "B", "C"} |->
                   IF t = "A" THEN <<"A">> ELSE IF t = "B" THEN <<"C">> ELSE <<"B">>]],
      [list |-> <<"A", "B", "C">>,
       deps |-> [t \in {"A", "B", "C"} |-> IF t = "A" THEN <<Unknown>> ELSE <<>>]],
      [list |-> <<"A", "B", "C">>,
       deps |-> [t \in {"A", "B", "C"} |->
                   IF t = "A" THEN <<>> ELSE IF t = "B" THEN <<"C">> ELSE <<"B">>]],
      [list |-> <<"A", "B">>,
       deps |-> [t \in {"A", "B"} |-> IF t = "A" THEN <<>> ELSE <<"B">>]],
      [list |-> <<>>, deps |-> <<>>] }

\* the hosts files discover_agents may be given (none: the empty list)
HostsFiles == {<<>>, <<"r1">>}

\* cores of the local machine (multiprocessing.cpu_count())
LocalCores == 2
\* core counts a probed agent may report
RemoteCores == {2, 4}

\* what a probe of host h may yield: an exception (ok = FALSE) or a
\* NINJA-AGENT response with the agent's name and core count
ProbeResponses(h) ==
    {[ok |-> FALSE, name |-> None, cores |-> 0]}
    \cup {[ok |-> TRUE, name |-> h, cores |-> c] : c \in RemoteCores}

\* one response per line of the hosts file
ProbeRuns(hosts) ==
    {r \in [DOMAIN hosts -> UNION {ProbeResponses(hosts[i]) : i \in DOMAIN hosts}] :
        \A i \in DOMAIN hosts : r[i] \in ProbeResponses(hosts[i])}

----------------------------------------------------------------------------
(* Agent registry *)

\* BuildAgent(...): status idle, no current task, last_seen = time.time()
BuildAgent(name, host, cores, t) ==
    [name |-> name, host |-> host, cores |-> cores, status |-> "idle",
     current_task |-> None, last_seen |-> t]

AgentNames(reg) == {reg[i].name : i \in DOMAIN reg}

AgentIdx(reg, name) == CHOOSE i \in DOMAIN reg : reg[i].name = name

\* self.agents[agent.name] = agent
register(reg, agent) ==
    IF agent.name \in AgentNames(reg)
    THEN [reg EXCEPT ![AgentIdx(reg, agent.name)] = agent]
    ELSE Append(reg, agent)

\* _probe_and_register_agent over the lines of the hosts file
RECURSIVE probe_and_register(_, _, _, _)

\* the exception of a failed probe not caught: the loop over the hosts
\* file ends at the first failure
probe_until_failure(reg, hosts, responses, t) ==
    IF hosts = <<>> THEN reg
    ELSE LET r == Head(responses)
         IN  IF r.ok
             THEN probe_and_register(
                      register(reg, BuildAgent(r.name, Head(hosts), r.cores, t)),
                      Tail(hosts), Tail(responses), t)
             ELSE reg

probe_and_register(reg, hosts, responses, t) ==
    IF hosts = <<>> THEN reg
    ELSE LET r == Head(responses)
         IN  probe_and_register(
                 IF r.ok THEN register(reg, BuildAgent(r.name, Head(hosts), r.cores, t))
                         ELSE reg,
                 Tail(hosts), Tail(responses), t)

\* a.status == "idle" for a in self.agents.values(), in dict order
idle_agents(reg) == SelectSeq(reg, LAMBDA a : a.status = "idle")

\* the sort by cores left out: the first idle agent
first_idle_agent(reg) == idle_agents(reg)[1].name

\* idle_agents.sort(key=lambda a: a.cores, reverse=True); idle_agents[0]:
\* the first idle agent with the most cores
best_agent(reg) ==
    LET idle == idle_agents(reg)
        i    == CHOOSE i \in DOMAIN idle :
                    /\ \A j \in DOMAIN idle : idle[j].cores <= idle[i].cores
                    /\ \A j \in 1..(i - 1) : idle[j].cores < idle[i].cores
    IN  idle[i].name

\* the rule with >= for >: stale at exactly three intervals
heartbeat_agent_at_threshold(a, t) ==
    IF t - a.last_seen >= heartbeat_interval * 3
    THEN IF a.host = "localhost"
         THEN [a EXCEPT !.last_seen = t]
         ELSE [a EXCEPT !.status = "unavailable"]
    ELSE a

\* the rule without the exemption of the local agent
heartbeat_agent_no_exemption(a, t) ==
    IF t - a.last_seen > heartbeat_interval * 3
    THEN [a EXCEPT !.status = "unavailable"]
    ELSE a

\* the rule that also takes the task away from a stale agent
heartbeat_agent_drops_task(a, t) ==
    IF t - a.last_seen > heartbeat_interval * 3
    THEN IF a.host = "localhost"
         THEN [a EXCEPT !.last_seen = t]
         ELSE [a EXCEPT !.status = "unavailable", !.current_task = None]
    ELSE a

\* lines 417-424: the heartbeat rule for one agent at current_time = t
heartbeat_agent(a, t) ==
    IF t - a.last_seen > heartbeat_interval * 3
    THEN IF a.host = "localhost"
         THEN [a EXCEPT !.last_seen = t]
         ELSE [a EXCEPT !.status = "unavailable"]
    ELSE a

----------------------------------------------------------------------------
(* Ready-task selection *)

\* the set built from the wrong list: the pending one
completed_targets_of_pending == Range(build_tasks)

\* {t.target for t in self.completed_tasks}
completed_targets == Range(completed_tasks)

\* the dependency check left out: every pending task is ready
eligible_unchecked(target) == TRUE

\* a dependency of the task on itself not counted
eligible_but_for_itself(target) ==
    \A d \in Range(tasks[target].dependencies) \ {target} : d \in completed_targets

\* all(dep in completed_targets for dep in task.dependencies)
eligible(target) == \A d \in Range(tasks[target].dependencies) : d \in completed_targets

priorities == [t \in DOMAIN tasks |-> tasks[t].priority]

\* the index _get_next_task pops from the sorted list, 0 when it returns None
next_task_index(sorted) ==
    IF \E i \in DOMAIN sorted : eligible(sorted[i])
    THEN CHOOSE i \in DOMAIN sorted :
            /\ eligible(sorted[i])
            /\ \A j \in 1..(i - 1) : ~eligible(sorted[j])
    ELSE 0

----------------------------------------------------------------------------
(* State after NinjaTeamOrchestrator(...) *)

\* the progress monitor before execute_build starts its thread
NoMonitor ==
    [pc |-> "off", total_tasks |-> 0, completed |-> 0, progress |-> 0,
     last_progress |-> 0]

Init ==
    /\ mode \in Modes
    /\ agents = <<>>
    /\ build_tasks = <<>>
    /\ completed_tasks = <<>>
    /\ tasks = <<>>
    /\ build_graph = <<>>
    /\ stop_event = FALSE
    /\ main_pc = "new"
    /\ workers = <<>>
    /\ hb_pc = "off"
    /\ now = 0
    /\ probed = <<>>
    /\ monitor = NoMonitor
    /\ history = <<>>

plan_vars == <<build_tasks, completed_tasks, tasks, build_graph, history>>
thread_vars == <<workers, hb_pc, now>>

----------------------------------------------------------------------------
(* The main thread before execute_build.  main() runs discover_agents,     *)
(* parse_build_tasks, optimize_build_plan, deploy_build_agents and         *)
(* execute_build in this order; the methods are public, and a client may   *)
(* also deploy before it discovers, or not deploy at all.                  *)

\* discover_agents(hosts_file): the local agent, then in distributed and
\* recursive mode every host of the file whose probe answers
discover_agents(hosts, responses) ==
    /\ main_pc = "new"
    /\ LET local == BuildAgent("local", "localhost", LocalCores, now)
           reg   == register(agents, local)
       IN  agents' = IF mode \in {"distributed", "recursive"}
                     THEN probe_and_register(reg, hosts, responses, now)
                     ELSE reg
    /\ probed' = IF mode \in {"distributed", "recursive"}
                 THEN [i \in DOMAIN hosts |-> [host |-> hosts[i], response |-> responses[i]]]
                 ELSE <<>>
    /\ main_pc' = "discovered"
    /\ UNCHANGED <<monitor, mode, stop_event>>
    /\ UNCHANGED plan_vars
    /\ UNCHANGED thread_vars

\* BuildTask(target=target, directory=build_dir, dependencies=deps); of a
\* timestamp the model keeps whether it has been set
BuildTask(deps) ==
    [priority |-> 0, dependencies |-> deps, status |-> "pending",
     assigned_agent |-> None, start_time |-> None, end_time |-> None]

\* parse_build_tasks returning True: one task per listed target whose
\* dependency query succeeded
parse_build_tasks(g) ==
    /\ main_pc = "discovered"
    /\ build_tasks' = g.list
    /\ tasks' = [t \in Range(g.list) |-> BuildTask(g.deps[t])]
    /\ build_graph' = g.deps
    /\ history' = [t \in Range(g.list) |-> [p0 |-> 0, failed |-> 0]]
    /\ main_pc' = "parsed"
    /\ UNCHANGED <<monitor, probed, mode, agents, completed_tasks, stop_event>>
    /\ UNCHANGED thread_vars

\* parse_build_tasks returning False (the target listing raised): main()
\* returns 1 and cleanup() sets the stop event
parse_build_tasks_failed ==
    /\ main_pc = "discovered"
    /\ main_pc' = "exit1"
    /\ stop_event' = TRUE
    /\ UNCHANGED <<monitor, probed, mode, agents>>
    /\ UNCHANGED plan_vars
    /\ UNCHANGED thread_vars

\* optimize_build_plan
optimize_build_plan ==
    /\ main_pc = "parsed"
    /\ LET sorted_tasks == topological_sort(build_tasks, build_graph)
           prio == plan_priorities(build_tasks, build_graph)
       IN  /\ tasks' = [t \in DOMAIN tasks |-> [tasks[t] EXCEPT !.priority = prio[t]]]
           /\ build_tasks' = sort_by_priority(sorted_tasks, prio)
           /\ history' = [t \in DOMAIN tasks |-> [p0 |-> prio[t], failed |-> 0]]
    /\ main_pc' = "optimized"
    /\ UNCHANGED <<monitor, probed, mode, agents, completed_tasks, build_graph, stop_event>>
    /\ UNCHANGED thread_vars

\* _deploy_agent_to_host for every agent that is not on localhost
deploy_agent_to_host(reg) ==
    [i \in DOMAIN reg |->
        IF reg[i].host # "localhost" THEN [reg[i] EXCEPT !.status = "active"]
                                     ELSE reg[i]]

\* deploy_build_agents: outside single mode, deploy and start the
\* heartbeat thread (in single mode it does nothing)
deploy_build_agents ==
    /\ main_pc \in {"new", "optimized"}
    /\ hb_pc = "off"
    /\ mode \in {"distributed", "recursive", "cloud"}
    /\ agents' = deploy_agent_to_host(agents)
    /\ hb_pc' = "started"
    /\ UNCHANGED <<monitor, probed, mode, stop_event, main_pc, workers, now>>
    /\ UNCHANGED plan_vars

----------------------------------------------------------------------------
(* execute_build: the main thread *)

NewWorker == [pc |-> "loop", task |-> None, agent |-> None, success |-> FALSE]

\* the executor threads are created and started, min(len(agents),
\* len(build_tasks)) of them, and after them the thread of the progress
\* monitor
execute_build ==
    /\ main_pc = "optimized"
    /\ workers' = [w \in 1..Min(Len(agents), Len(build_tasks)) |-> NewWorker]
    /\ monitor' = [monitor EXCEPT !.pc = "start"]
    /\ main_pc' = "wait"
    /\ UNCHANGED <<probed, mode, agents, stop_event, hb_pc, now>>
    /\ UNCHANGED plan_vars

any_alive == \E w \in DOMAIN workers : workers[w].pc # "done"

\* while any(t.is_alive() ...) and not self.stop_event.is_set():
\*     if not self.build_tasks and ...
main_wait ==
    /\ main_pc = "wait"
    /\ main_pc' = IF any_alive /\ ~stop_event
                  THEN IF build_tasks = <<>> THEN "check_agents" ELSE "wait"
                  ELSE "set_stop"
    /\ UNCHANGED <<monitor, probed, mode, agents, stop_event>>
    /\ UNCHANGED plan_vars
    /\ UNCHANGED thread_vars

\* ... and all(agent.status == "idle" for agent in self.agents.values()): break
main_check_agents ==
    /\ main_pc = "check_agents"
    /\ main_pc' = IF \A i \in DOMAIN agents : agents[i].status = "idle"
                  THEN "set_stop" ELSE "wait"
    /\ UNCHANGED <<monitor, probed, mode, agents, stop_event>>
    /\ UNCHANGED plan_vars
    /\ UNCHANGED thread_vars

\* self.stop_event.set(); the joins; return True
main_set_stop ==
    /\ main_pc = "set_stop"
    /\ stop_event' = TRUE
    /\ main_pc' = "exit0"
    /\ UNCHANGED <<monitor, probed, mode, agents>>
    /\ UNCHANGED plan_vars
    /\ UNCHANGED thread_vars

\* except KeyboardInterrupt: self.stop_event.set(); return False
keyboard_interrupt ==
    /\ main_pc \in {"wait", "check_agents"}
    /\ stop_event' = TRUE
    /\ main_pc' = "exit1"
    /\ UNCHANGED <<monitor, probed, mode, agents>>
    /\ UNCHANGED plan_vars
    /\ UNCHANGED thread_vars

----------------------------------------------------------------------------
(* _task_executor: one executor thread *)

worker_frame == <<monitor, probed, mode, stop_event, main_pc, hb_pc, now, build_graph>>

\* while not self.stop_event.is_set():
task_executor_loop(w) ==
    /\ workers[w].pc = "loop"
    /\ workers' = [workers EXCEPT ![w].pc = IF stop_event THEN "done" ELSE "get"]
    /\ UNCHANGED <<agents, build_tasks, completed_tasks, tasks, history>>
    /\ UNCHANGED worker_frame

\* task = self._get_next_task(): sort, scan, pop, under the lock
get_next_task(w) ==
    /\ workers[w].pc = "get"
    /\ LET sorted == sort_by_priority(build_tasks, priorities)
           i      == next_task_index(sorted)
       IN  IF i = 0
           THEN /\ build_tasks' = sorted
                /\ workers' = [workers EXCEPT ![w].pc = "loop"]
           ELSE /\ build_tasks' = RemoveAt(sorted, i)
                /\ workers' = [workers EXCEPT ![w].pc = "reserve",
                                              ![w].task = sorted[i]]
    /\ UNCHANGED <<agents, completed_tasks, tasks, history>>
    /\ UNCHANGED worker_frame

\* the status left idle: only current_task is attached
reserve_unmarked(reg, best, target) ==
    [reg EXCEPT ![AgentIdx(reg, best)].current_task = target]

\* current_task not attached: only the status is set
reserve_status_only(reg, best, target) ==
    [reg EXCEPT ![AgentIdx(reg, best)].status = "busy"]

\* the registry after _reserve_agent has taken agent `best`
reserve(reg, best, target) ==
    [reg EXCEPT ![AgentIdx(reg, best)].status = "busy",
                ![AgentIdx(reg, best)].current_task = target]

\* agent = self._reserve_agent(task): under the lock
reserve_agent(w) ==
    /\ workers[w].pc = "reserve"
    /\ IF idle_agents(agents) = <<>>
       THEN /\ workers' = [workers EXCEPT ![w].pc = "put_back"]
            /\ UNCHANGED agents
       ELSE /\ agents' = reserve(agents, best_agent(agents), workers[w].task)
            /\ workers' = [workers EXCEPT ![w].pc = "start",
                                          ![w].agent = best_agent(agents)]
    /\ UNCHANGED <<build_tasks, completed_tasks, tasks, history>>
    /\ UNCHANGED worker_frame

\* the task put back at the front of the list
push_front(list, target) == <<target>> \o list

\* self.build_tasks.append(task)
push_back(list, target) == Append(list, target)

\* the task of a failed execution dropped instead of re-queued
not_requeued(list, target) == list

\* self.build_tasks.append(task), in the release block
requeued(list, target) == Append(list, target)

\* no agent: with self.lock: self.build_tasks.append(task)
put_task_back(w) ==
    /\ workers[w].pc = "put_back"
    /\ build_tasks' = push_back(build_tasks, workers[w].task)
    /\ workers' = [workers EXCEPT ![w].pc = "loop", ![w].task = None]
    /\ UNCHANGED <<agents, completed_tasks, tasks, history>>
    /\ UNCHANGED worker_frame

\* the agent not recorded in the task
start_unassigned(task, agent) ==
    [task EXCEPT !.start_time = "set", !.status = "running"]

\* task.start_time = time.time(); task.status = "running";
\* task.assigned_agent = agent
start(task, agent) ==
    [task EXCEPT !.start_time = "set", !.status = "running", !.assigned_agent = agent]

\* _execute_task_on_agent, up to the build: status running, assigned_agent
execute_task_start(w) ==
    /\ workers[w].pc = "start"
    /\ tasks' = [tasks EXCEPT ![workers[w].task] = start(@, workers[w].agent)]
    /\ workers' = [workers EXCEPT ![w].pc = "run"]
    /\ UNCHANGED <<agents, build_tasks, completed_tasks, history>>
    /\ UNCHANGED worker_frame

RECURSIVE Sum(_, _)
Sum(f, S) == IF S = {} THEN 0
             ELSE LET x == CHOOSE x \in S : TRUE IN f[x] + Sum(f, S \ {x})

\* failed executions of the run so far: re-queued, or about to be
total_failures ==
    Sum([t \in DOMAIN history |-> history[t].failed], DOMAIN history)
    + Cardinality({w \in DOMAIN workers :
                      workers[w].pc = "release" /\ ~workers[w].success})

\* the outcomes of the build: ninja's exit status or an exception on the
\* local machine, always success on a remote agent
build_outcomes(agent) ==
    IF agents[AgentIdx(agents, agent)].host = "localhost" THEN BOOLEAN ELSE {TRUE}

\* task.status = "completed" if success else "failed"
end_status(success) == IF success THEN "completed" ELSE "failed"

\* _execute_task_on_agent, from the build on
execute_task_end(w, success) ==
    /\ workers[w].pc = "run"
    /\ success \in build_outcomes(workers[w].agent)
    /\ success \/ total_failures < MaxFails
    /\ tasks' = [tasks EXCEPT ![workers[w].task].end_time = "set",
                              ![workers[w].task].status = end_status(success)]
    /\ workers' = [workers EXCEPT ![w].pc = "release", ![w].success = success]
    /\ UNCHANGED <<agents, build_tasks, completed_tasks, history>>
    /\ UNCHANGED worker_frame

\* a decrement instead of the halving
reduce_priority_by_one(p) == p - 1

\* task.priority //= 2
reduce_priority(p) == p \div 2

\* the back-reference kept: only the status is reset
released_keeps_task(reg, agent) ==
    [reg EXCEPT ![AgentIdx(reg, agent)].status = "idle"]

\* the status reset only when the agent is still busy: an agent the
\* heartbeat monitor has marked unavailable stays unavailable
released_unless_unavailable(reg, agent) ==
    [reg EXCEPT ![AgentIdx(reg, agent)].status =
                    IF @ = "busy" THEN "idle" ELSE @,
                ![AgentIdx(reg, agent)].current_task = None]

\* agent.status = "idle"; agent.current_task = None
released(reg, agent) ==
    [reg EXCEPT ![AgentIdx(reg, agent)].status = "idle",
                ![AgentIdx(reg, agent)].current_task = None]

\* the release block of _task_executor, under the lock
release_agent(w) ==
    /\ workers[w].pc = "release"
    /\ agents' = released(agents, workers[w].agent)
    /\ IF workers[w].success
       THEN /\ completed_tasks' = Append(completed_tasks, workers[w].task)
            /\ UNCHANGED <<build_tasks, tasks, history>>
       ELSE /\ tasks' = [tasks EXCEPT ![workers[w].task].priority = reduce_priority(@)]
            /\ build_tasks' = requeued(build_tasks, workers[w].task)
            /\ history' = [history EXCEPT ![workers[w].task].failed = @ + 1]
            /\ UNCHANGED completed_tasks
    /\ workers' = [workers EXCEPT ![w] = NewWorker]
    /\ UNCHANGED worker_frame

----------------------------------------------------------------------------
(* _agent_heartbeat_monitor *)

\* the monitor's first iteration: the thread has started and makes its
\* pass over the registry, under the lock, at current_time = time.time()
heartbeat_first ==
    /\ hb_pc = "started"
    /\ ~stop_event
    /\ agents' = [i \in DOMAIN agents |-> heartbeat_agent(agents[i], now)]
    /\ hb_pc' = "run"
    /\ UNCHANGED <<monitor, probed, mode, stop_event, main_pc, workers, now>>
    /\ UNCHANGED plan_vars

\* a later iteration: self.stop_event.wait(interval) has returned after d
\* seconds, the stop event is not set, and the monitor makes its pass.
\* Time counts from the first registration: the rule reads only
\* current_time - last_seen, and a pass over an empty registry does nothing.
heartbeat_monitor(d) ==
    /\ hb_pc = "run"
    /\ ~stop_event
    /\ agents # <<>>
    /\ now + d <= MaxTime
    /\ now' = now + d
    /\ agents' = [i \in DOMAIN agents |-> heartbeat_agent(agents[i], now')]
    /\ UNCHANGED <<monitor, probed, mode, stop_event, main_pc, workers, hb_pc>>
    /\ UNCHANGED plan_vars

\* while not self.stop_event.is_set(): the monitor ends
heartbeat_exit ==
    /\ hb_pc \in {"started", "run"}
    /\ stop_event
    /\ hb_pc' = "done"
    /\ UNCHANGED <<monitor, probed, mode, agents, stop_event, main_pc, workers, now>>
    /\ UNCHANGED plan_vars

----------------------------------------------------------------------------
(* _build_progress_monitor.  The thread reads the shared lists without the *)
(* lock, one read per step; it writes only its own locals.                 *)

\* (completed / total_tasks) * 100 if total_tasks > 0 else 0, in whole
\* percent (rounded down)
progress_of(completed, total_tasks) ==
    IF total_tasks > 0 THEN (completed * 100) \div total_tasks ELSE 0

\* total_tasks = len(self.build_tasks) + ...: the first operand is read
build_progress_monitor_pending ==
    /\ monitor.pc = "start"
    /\ monitor' = [monitor EXCEPT !.pc = "total", !.total_tasks = Len(build_tasks)]
    /\ UNCHANGED <<probed, mode, agents, stop_event, main_pc>>
    /\ UNCHANGED plan_vars
    /\ UNCHANGED thread_vars

\* total_tasks = ... + len(self.completed_tasks): the second operand is
\* read and the sum is stored
build_progress_monitor_total ==
    /\ monitor.pc = "total"
    /\ monitor' = [monitor EXCEPT !.pc = "loop",
                                  !.total_tasks = @ + Len(completed_tasks)]
    /\ UNCHANGED <<probed, mode, agents, stop_event, main_pc>>
    /\ UNCHANGED plan_vars
    /\ UNCHANGED thread_vars

\* while not self.stop_event.is_set():
build_progress_monitor_loop ==
    /\ monitor.pc = "loop"
    /\ monitor' = [monitor EXCEPT !.pc = IF stop_event THEN "done" ELSE "report"]
    /\ UNCHANGED <<probed, mode, agents, stop_event, main_pc>>
    /\ UNCHANGED plan_vars
    /\ UNCHANGED thread_vars

\* the body of the loop: completed is read, progress is computed and, when
\* it has grown by five points or is the first above zero, logged and kept
\* in last_progress; then the thread sleeps
build_progress_monitor_report ==
    /\ monitor.pc = "report"
    /\ LET completed == Len(completed_tasks)
           progress  == progress_of(completed, monitor.total_tasks)
           logged    == \/ progress - monitor.last_progress >= 5
                        \/ (progress > 0 /\ monitor.last_progress = 0)
       IN  monitor' = [monitor EXCEPT
                          !.pc = "loop",
                          !.completed = completed,
                          !.progress = progress,
                          !.last_progress = IF logged THEN progress ELSE @]
    /\ UNCHANGED <<probed, mode, agents, stop_event, main_pc>>
    /\ UNCHANGED plan_vars
    /\ UNCHANGED thread_vars

----------------------------------------------------------------------------

Next ==
    \/ \E hosts \in HostsFiles : \E responses \in ProbeRuns(hosts) :
          discover_agents(hosts, responses)
    \/ \E g \in Graphs : parse_build_tasks(g)
    \/ parse_build_tasks_failed
    \/ optimize_build_plan
    \/ deploy_build_agents
    \/ execute_build
    \/ main_wait
    \/ main_check_agents
    \/ main_set_stop
    \/ keyboard_interrupt
    \/ \E w \in DOMAIN workers : task_executor_loop(w)
    \/ \E w \in DOMAIN workers : get_next_task(w)
    \/ \E w \in DOMAIN workers : reserve_agent(w)
    \/ \E w \in DOMAIN workers : put_task_back(w)
    \/ \E w \in DOMAIN workers : execute_task_start(w)
    \/ \E w \in DOMAIN workers : \E success \in BOOLEAN : execute_task_end(w, success)
    \/ \E w \in DOMAIN workers : release_agent(w)
    \/ heartbeat_first
    \/ \E d \in WaitTimes : heartbeat_monitor(d)
    \/ heartbeat_exit

\* the scheduler from construction to the end of execute_build.  The
\* progress monitor writes nothing but its own locals; its thread takes
\* its steps in SpecMonitor.
Spec == Init /\ [][Next]_vars

----------------------------------------------------------------------------
(* The plan as a function of the parsed graph: every task list of up to    *)
(* three targets, every dependency list of up to MaxDeps distinct ids      *)
(* (targets of the list, other targets, or an id that is no target).       *)

RECURSIVE DistinctSeqs(_, _)
DistinctSeqs(S, n) ==
    IF n = 0 THEN {<<>>}
    ELSE LET shorter == DistinctSeqs(S, n - 1)
         IN  shorter \cup UNION {{Append(q, x) : x \in S \ Range(q)} : q \in shorter}

TaskLists == {<<"A">>, <<"A", "B">>, <<"A", "B", "C">>}

DepLists == DistinctSeqs(Targets \cup {Unknown}, MaxDeps)

\* the state after discover_agents in single mode and parse_build_tasks
InitPlan ==
    /\ mode = "single"
    /\ agents = <<BuildAgent("local", "localhost", LocalCores, 0)>>
    /\ \E l \in TaskLists : \E d \in [Range(l) -> DepLists] :
          /\ build_tasks = l
          /\ tasks = [t \in Range(l) |-> BuildTask(d[t])]
          /\ build_graph = d
          /\ history = [t \in Range(l) |-> [p0 |-> 0, failed |-> 0]]
    /\ completed_tasks = <<>>
    /\ stop_event = FALSE
    /\ main_pc = "parsed"
    /\ workers = <<>>
    /\ hb_pc = "off"
    /\ now = 0
    /\ probed = <<>>
    /\ monitor = NoMonitor

NextPlan == optimize_build_plan

SpecPlan == InitPlan /\ [][NextPlan]_vars

----------------------------------------------------------------------------
(* Discovery as a function of the hosts file and of what the probes get:   *)
(* every hosts file of up to MaxHosts lines over three hosts, a host may   *)
(* be listed more than once.                                               *)

Hosts == {"r1", "r2", "r3"}

HostsLists == UNION {[1..n -> Hosts] : n \in 0..MaxHosts}

NextDiscover ==
    \E hosts \in HostsLists : \E responses \in ProbeRuns(hosts) :
        discover_agents(hosts, responses)

SpecDiscover == Init /\ [][NextDiscover]_vars

----------------------------------------------------------------------------
(* End-to-end scenario 1: the graph {A: [], B: [A], C: [A]} on two idle     *)
(* agents, every execution succeeding.  A client has run discover_agents   *)
(* in distributed mode with one answering host and parse_build_tasks, and  *)
(* goes on to optimize_build_plan and execute_build without deploying, so  *)
(* that both agents are idle and no heartbeat thread runs.  With two       *)
(* workers on two agents _reserve_agent always finds an idle agent: the    *)
(* push-back branch is never taken.                                        *)

InitScenario1 ==
    /\ mode = "distributed"
    /\ \E c \in RemoteCores :
          /\ agents = probe_and_register(
                          register(<<>>, BuildAgent("local", "localhost", LocalCores, 0)),
                          <<"r1">>, <<[ok |-> TRUE, name |-> "r1", cores |-> c]>>, 0)
          /\ probed = <<[host |-> "r1",
                         response |-> [ok |-> TRUE, name |-> "r1", cores |-> c]]>>
    /\ monitor = NoMonitor
    /\ build_tasks = <<"A", "B", "C">>
    /\ tasks = [t \in {"A", "B", "C"} |->
                   BuildTask(IF t = "A" THEN <<>> ELSE <<"A">>)]
    /\ build_graph = [t \in {"A", "B", "C"} |-> IF t = "A" THEN <<>> ELSE <<"A">>]
    /\ history = [t \in {"A", "B", "C"} |-> [p0 |-> 0, failed |-> 0]]
    /\ completed_tasks = <<>>
    /\ stop_event = FALSE
    /\ main_pc = "parsed"
    /\ workers = <<>>
    /\ hb_pc = "off"
    /\ now = 0

\* one step of the main thread
main_step ==
    \/ optimize_build_plan
    \/ execute_build
    \/ main_wait
    \/ main_check_agents
    \/ main_set_stop

\* one step of executor thread w, its build succeeding
task_executor_step(w) ==
    \/ task_executor_loop(w)
    \/ get_next_task(w)
    \/ reserve_agent(w)
    \/ execute_task_start(w)
    \/ execute_task_end(w, TRUE)
    \/ release_agent(w)

NextScenario1 ==
    \/ optimize_build_plan
    \/ execute_build
    \/ main_wait
    \/ main_check_agents
    \/ main_set_stop
    \/ \E w \in DOMAIN workers : task_executor_loop(w)
    \/ \E w \in DOMAIN workers : get_next_task(w)
    \/ \E w \in DOMAIN workers : reserve_agent(w)
    \/ \E w \in DOMAIN workers : execute_task_start(w)
    \/ \E w \in DOMAIN workers : execute_task_end(w, TRUE)
    \/ \E w \in DOMAIN workers : release_agent(w)

\* fair scheduling: a thread that can take a step eventually takes one
SpecScenario1 ==
    /\ InitScenario1
    /\ [][NextScenario1]_vars
    /\ WF_vars(main_step)
    /\ \A w \in 1..2 : WF_vars(w \in DOMAIN workers /\ task_executor_step(w))

----------------------------------------------------------------------------
(* The run of main() in distributed mode on the graph of scenario 1, one   *)
(* remote host answering its probe: from parse_build_tasks on, the client  *)
(* optimizes, deploys (or leaves the deployment out) and runs              *)
(* execute_build, under fair scheduling of the threads: the main thread    *)
(* in execute_build, every executor thread and the heartbeat thread each   *)
(* take a step when they can.  Nothing obliges the user to interrupt.      *)

\* one step of the main thread in execute_build
main_loop ==
    \/ execute_build
    \/ main_wait
    \/ main_check_agents
    \/ main_set_stop

\* one step of executor thread w, whatever the outcome of its build
task_executor_thread(w) ==
    \/ task_executor_step(w)
    \/ put_task_back(w)
    \/ execute_task_end(w, FALSE)

\* one step of the heartbeat thread
heartbeat_thread ==
    \/ heartbeat_first
    \/ \E d \in WaitTimes : heartbeat_monitor(d)
    \/ heartbeat_exit

NextDeployed ==
    \/ optimize_build_plan
    \/ deploy_build_agents
    \/ execute_build
    \/ main_wait
    \/ main_check_agents
    \/ main_set_stop
    \/ keyboard_interrupt
    \/ \E w \in DOMAIN workers : task_executor_loop(w)
    \/ \E w \in DOMAIN workers : get_next_task(w)
    \/ \E w \in DOMAIN workers : reserve_agent(w)
    \/ \E w \in DOMAIN workers : put_task_back(w)
    \/ \E w \in DOMAIN workers : execute_task_start(w)
    \/ \E w \in DOMAIN workers : \E success \in BOOLEAN : execute_task_end(w, success)
    \/ \E w \in DOMAIN workers : release_agent(w)
    \/ heartbeat_first
    \/ \E d \in WaitTimes : heartbeat_monitor(d)
    \/ heartbeat_exit

SpecDeployed ==
    /\ InitScenario1
    /\ [][NextDeployed]_vars
    /\ WF_vars(main_loop)
    /\ \A w \in 1..2 : WF_vars(w \in DOMAIN workers /\ task_executor_thread(w))
    /\ WF_vars(heartbeat_thread)

----------------------------------------------------------------------------
(* Scenario 1 with the progress monitor: the threads of execute_build,     *)
(* every execution succeeding, and the monitor thread that execute_build   *)
(* starts after the executor threads.                                      *)

\* one step of the progress monitor thread
build_progress_monitor ==
    \/ build_progress_monitor_pending
    \/ build_progress_monitor_total
    \/ build_progress_monitor_loop
    \/ build_progress_monitor_report

NextMonitor ==
    \/ optimize_build_plan
    \/ execute_build
    \/ main_wait
    \/ main_check_agents
    \/ main_set_stop
    \/ \E w \in DOMAIN workers : task_executor_loop(w)
    \/ \E w \in DOMAIN workers : get_next_task(w)
    \/ \E w \in DOMAIN workers : reserve_agent(w)
    \/ \E w \in DOMAIN workers : execute_task_start(w)
    \/ \E w \in DOMAIN workers : execute_task_end(w, TRUE)
    \/ \E w \in DOMAIN workers : release_agent(w)
    \/ build_progress_monitor_pending
    \/ build_progress_monitor_total
    \/ build_progress_monitor_loop
    \/ build_progress_monitor_report

SpecMonitor ==
    /\ InitScenario1
    /\ [][NextMonitor]_vars
    /\ WF_vars(main_step)
    /\ \A w \in 1..2 : WF_vars(w \in DOMAIN workers /\ task_executor_step(w))
    /\ WF_vars(build_progress_monitor)

----------------------------------------------------------------------------
(* Properties *)

Held(t) == \E w \in DOMAIN workers : workers[w].task = t

DepsCompleted(t) ==
    \A i \in DOMAIN tasks[t].dependencies :
        \E j \in DOMAIN completed_tasks : completed_tasks[j] = tasks[t].dependencies[i]

NonLocal(a) == a.host # "localhost"

\* C1: a task that _get_next_task has returned (a worker holds it), and
\* every task that has started to run, has all its dependencies among the
\* targets of completed_tasks: B, depending on A, never runs before A has
\* completed.
DependencyOrdering ==
    \A t \in DOMAIN tasks :
        (Held(t) \/ tasks[t].status # "pending") => DepsCompleted(t)

\* a worker runs a task that has a dependency
DependencyOrderingWitness ==
    \E w \in DOMAIN workers :
        /\ workers[w].pc = "run"
        /\ tasks[workers[w].task].dependencies # <<>>

\* C2 (as claimed): the busy agents and the running tasks are in one-to-one
\* correspondence: a busy agent's current_task is a running task, and a
\* running task has exactly one busy agent attached.
BusyRunningBijection ==
    /\ \A i \in DOMAIN agents :
          agents[i].status = "busy" =>
              /\ agents[i].current_task \in DOMAIN tasks
              /\ tasks[agents[i].current_task].status = "running"
    /\ \A t \in DOMAIN tasks :
          tasks[t].status = "running" =>
              Cardinality({i \in DOMAIN agents :
                              /\ agents[i].status = "busy"
                              /\ agents[i].current_task = t}) = 1

\* C3: no agent is held by two workers at the same time, a worker holding
\* an agent from its successful _reserve_agent to its release block.
ExclusiveReservation ==
    \A w1, w2 \in DOMAIN workers :
        (w1 # w2 /\ workers[w1].agent # None) => workers[w1].agent # workers[w2].agent

\* two workers hold an agent each
ExclusiveReservationWitness ==
    \E w1, w2 \in DOMAIN workers :
        /\ w1 # w2
        /\ workers[w1].agent # None
        /\ workers[w2].agent # None

\* C4: no task is held by two workers at the same time, and a task a
\* worker holds is not in the pending list.
ExclusiveSelection ==
    /\ \A w1, w2 \in DOMAIN workers :
          (w1 # w2 /\ workers[w1].task # None) => workers[w1].task # workers[w2].task
    /\ \A w \in DOMAIN workers :
          \A i \in DOMAIN build_tasks : build_tasks[i] # workers[w].task

\* two workers hold a task each
ExclusiveSelectionWitness ==
    \E w1, w2 \in DOMAIN workers :
        /\ w1 # w2
        /\ workers[w1].task # None
        /\ workers[w2].task # None

\* C5 (as claimed): optimize_build_plan gives the task at position r (from
\* 0) of the topological order the priority r + 10*d, d the number of other
\* tasks whose dependency list holds the task's target.
PriorityFormula ==
    [][(main_pc = "parsed" /\ main_pc' = "optimized") =>
          LET order == topological_sort(build_tasks, build_graph)
          IN  \A r \in DOMAIN order :
                 tasks'[order[r]].priority =
                     (r - 1) + 10 * Cardinality({u \in DOMAIN build_graph \ {order[r]} :
                                                   \E k \in DOMAIN build_graph[u] :
                                                       build_graph[u][k] = order[r]})]_vars

\* C6: when _get_next_task returns a task, the task was pending and
\* eligible and no pending task was eligible with a strictly higher
\* priority; when it returns None, no pending task was eligible.
HighestPriorityEligible ==
    [][\A w \in DOMAIN workers :
          (workers[w].pc = "get" /\ workers'[w].pc # "get") =>
              IF workers'[w].task # None
              THEN /\ \E i \in DOMAIN build_tasks : build_tasks[i] = workers'[w].task
                   /\ DepsCompleted(workers'[w].task)
                   /\ \A i \in DOMAIN build_tasks :
                         DepsCompleted(build_tasks[i]) =>
                             tasks[build_tasks[i]].priority
                                 <= tasks[workers'[w].task].priority
              ELSE \A i \in DOMAIN build_tasks : ~DepsCompleted(build_tasks[i])]_vars

\* a worker has been given a task while an eligible task of lower priority
\* stays pending
HighestPriorityEligibleWitness ==
    \E w \in DOMAIN workers :
        /\ workers[w].pc = "reserve"
        /\ \E i \in DOMAIN build_tasks :
              /\ DepsCompleted(build_tasks[i])
              /\ tasks[build_tasks[i]].priority < tasks[workers[w].task].priority

RECURSIVE Halved(_, _)
Halved(p, k) == IF k = 0 THEN p ELSE Halved(p, k - 1) \div 2

\* C7: a task re-queued k times after a failed execution has the priority
\* the plan gave it halved, with integer floor, k times.
RetryDecay ==
    \A t \in DOMAIN tasks :
        tasks[t].priority = Halved(history[t].p0, history[t].failed)

\* a task of priority at least 4 is back in the pending list after two
\* failed executions
RetryDecayWitness ==
    \E i \in DOMAIN build_tasks :
        /\ history[build_tasks[i]].failed = 2
        /\ history[build_tasks[i]].p0 >= 4
        /\ tasks[build_tasks[i]].priority = (history[build_tasks[i]].p0 \div 2) \div 2

\* C8 (as claimed): every task in the pending list has status pending.
PendingListIsPending ==
    \A i \in DOMAIN build_tasks : tasks[build_tasks[i]].status = "pending"

\* a step of the heartbeat monitor that makes a pass, at time now'
HeartbeatPass == (hb_pc = "started" /\ hb_pc' = "run") \/ now' # now

\* C9: a heartbeat pass sets a non-local agent to unavailable if and only
\* if current_time - last_seen is strictly greater than three heartbeat
\* intervals; otherwise the agent keeps its status.
HeartbeatTimeout ==
    [][HeartbeatPass =>
          \A i \in DOMAIN agents :
              NonLocal(agents[i]) =>
                  agents'[i].status =
                      IF now' - agents[i].last_seen > 3 * heartbeat_interval
                      THEN "unavailable"
                      ELSE agents[i].status]_vars

\* the monitor has looked at a non-local agent exactly three intervals
\* after it was last seen, and the agent is not unavailable
HeartbeatTimeoutWitness ==
    /\ hb_pc = "run"
    /\ \E i \in DOMAIN agents :
          /\ NonLocal(agents[i])
          /\ now - agents[i].last_seen = 3 * heartbeat_interval
          /\ agents[i].status # "unavailable"

\* C10: the local agent is never unavailable; a heartbeat pass that finds
\* it stale changes only its last_seen, to current_time.
LocalAgentAlive ==
    [][\A i \in DOMAIN agents' :
          ~NonLocal(agents'[i]) =>
              /\ agents'[i].status # "unavailable"
              /\ HeartbeatPass =>
                    agents'[i] =
                        IF now' - agents[i].last_seen > 3 * heartbeat_interval
                        THEN [agents[i] EXCEPT !.last_seen = now']
                        ELSE agents[i]]_vars

\* the monitor has found the local agent stale and refreshed it
LocalAgentAliveWitness ==
    \E i \in DOMAIN agents :
        /\ ~NonLocal(agents[i])
        /\ agents[i].last_seen > 0
        /\ agents[i].last_seen = now

\* the tasks started so far: held by a worker, or no longer pending
Dispatched(t) == Held(t) \/ tasks[t].status # "pending"

KnownEdges(list, graph) ==
    Sum([i \in DOMAIN list |->
            Cardinality({k \in DOMAIN graph[list[i]] : graph[list[i]][k] \in Range(list)})],
        DOMAIN list)

\* C12: on every graph, cyclic ones included, _topological_sort ends with
\* a result that holds every task of the list exactly once; visit() is
\* called at most once per task from the outer loop and once per
\* dependency entry, so a target met again, in progress or done, is not
\* followed again.
TopologicalSortOnce ==
    LET order == topological_sort(build_tasks, build_graph)
    IN  /\ Len(order) = Len(build_tasks)
        /\ \A i \in DOMAIN build_tasks :
              Cardinality({j \in DOMAIN order : order[j] = build_tasks[i]}) = 1
        /\ traverse(build_tasks, build_graph).calls
              <= Len(build_tasks) + KnownEdges(build_tasks, build_graph)

\* the plan has been made for the cyclic graph {A: [B], B: [A]}
TopologicalSortOnceWitness ==
    /\ main_pc = "optimized"
    /\ Len(build_tasks) = 2
    /\ build_graph["A"] = <<"B">>
    /\ build_graph["B"] = <<"A">>
    /\ Range(build_tasks) = {"A", "B"}

\* every dependency of t is completed or is the target of no known task
DepsCompletedOrUnknown(t) ==
    \A i \in DOMAIN tasks[t].dependencies :
        \/ tasks[t].dependencies[i] \notin DOMAIN tasks
        \/ \E j \in DOMAIN completed_tasks :
              completed_tasks[j] = tasks[t].dependencies[i]

\* C13 (as claimed): a dependency id that is the target of no known task
\* counts as satisfied, so _get_next_task returns None only when no
\* pending task has all its dependencies completed or unknown.
UnknownDependencySatisfied ==
    [][\A w \in DOMAIN workers :
          (workers[w].pc = "get" /\ workers'[w].pc = "loop") =>
              \A i \in DOMAIN build_tasks :
                  ~DepsCompletedOrUnknown(build_tasks[i])]_vars

\* the hosts of the file whose probe was answered
AnsweredHosts == {probed[i].host : i \in {j \in DOMAIN probed : probed[j].response.ok}}

EmptyIngestionAborts ==
    main_pc \in {"wait", "check_agents", "set_stop", "exit0"} => DOMAIN tasks # {}

\* C16: a call of _reserve_agent that finds no agent idle returns None and
\* changes no agent; otherwise it returns an idle agent with the most
\* cores among the idle ones, the earliest registered of these, and in
\* the same step makes it busy with the task's target as current_task,
\* all other agents unchanged.
ReserveBestIdleAgent ==
    [][\A w \in DOMAIN workers :
          (workers[w].pc = "reserve" /\ workers'[w].pc # "reserve") =>
              IF \A i \in DOMAIN agents : agents[i].status # "idle"
              THEN /\ workers'[w].agent = None
                   /\ agents' = agents
              ELSE \E i \in DOMAIN agents :
                      /\ workers'[w].agent = agents[i].name
                      /\ agents[i].status = "idle"
                      /\ \A j \in DOMAIN agents :
                            agents[j].status = "idle" =>
                                /\ agents[j].cores <= agents[i].cores
                                /\ (j < i => agents[j].cores < agents[i].cores)
                      /\ agents'[i] = [agents[i] EXCEPT !.status = "busy",
                                                        !.current_task = workers[w].task]
                      /\ \A j \in DOMAIN agents \ {i} : agents'[j] = agents[j]]_vars

\* before any release, a worker has reserved the local agent while a
\* later registered agent with as many cores is idle
ReserveBestIdleAgentWitness ==
    /\ completed_tasks = <<>>
    /\ \A t \in DOMAIN history : history[t].failed = 0
    /\ \E w \in DOMAIN workers :
          /\ workers[w].pc = "start"
          /\ workers[w].agent = "local"
          /\ \A v \in DOMAIN workers \ {w} : workers[v].agent = None
          /\ \E i, j \in DOMAIN agents :
                /\ i < j
                /\ agents[i].name = "local"
                /\ agents[j].status = "idle"
                /\ agents[j].cores = agents[i].cores

\* C17: whenever the lock is free, a busy agent has a current_task, the
\* target of a task, and an idle agent has none.
BusyHasCurrentTask ==
    \A i \in DOMAIN agents :
        /\ agents[i].status = "busy" =>
              (agents[i].current_task # None /\ agents[i].current_task \in DOMAIN tasks)
        /\ agents[i].status = "idle" => agents[i].current_task = None

\* one agent is busy and another is idle again after its release
BusyHasCurrentTaskWitness ==
    /\ completed_tasks # <<>>
    /\ \E i, j \in DOMAIN agents :
          /\ agents[i].status = "busy"
          /\ agents[j].status = "idle"
          /\ \E k \in DOMAIN completed_tasks :
                tasks[completed_tasks[k]].assigned_agent = agents[j].name

\* C18: the step in which a worker resolves the task it has executed,
\* whether the build succeeded or failed (a non-zero exit or an exception),
\* leaves the agent it held idle with no current_task, and in the same
\* step appends the task to completed_tasks (success) or to build_tasks
\* (failure); no other step of a worker appends a task to completed_tasks.
ReleaseAlways ==
    [][/\ \A w \in DOMAIN workers :
             (workers[w].pc = "release" /\ workers'[w].pc # "release") =>
                 /\ \E i \in DOMAIN agents :
                       /\ agents[i].name = workers[w].agent
                       /\ agents'[i].status = "idle"
                       /\ agents'[i].current_task = None
                 /\ IF workers[w].success
                    THEN /\ completed_tasks' = Append(completed_tasks, workers[w].task)
                         /\ build_tasks' = build_tasks
                    ELSE /\ build_tasks' = Append(build_tasks, workers[w].task)
                         /\ completed_tasks' = completed_tasks
       /\ completed_tasks' # completed_tasks =>
             \E w \in DOMAIN workers :
                 workers[w].pc = "release" /\ workers'[w].pc # "release"]_vars

\* a task is back in the pending list after a failed execution, and the
\* agent that ran it is idle with no current_task
ReleaseAlwaysWitness ==
    \E k \in DOMAIN build_tasks :
        /\ tasks[build_tasks[k]].status = "failed"
        /\ \E i \in DOMAIN agents :
              /\ agents[i].name = tasks[build_tasks[k]].assigned_agent
              /\ agents[i].status = "idle"
              /\ agents[i].current_task = None

\* C19: the step in which a worker that found no idle agent puts its task
\* back appends the task to the pending list and changes nothing else of
\* the plan or of the registry: every task record (priority, status,
\* dependencies, timestamps), every agent and completed_tasks are as
\* before.
PutBackFrame ==
    [][\A w \in DOMAIN workers :
          (workers[w].pc = "put_back" /\ workers'[w].pc # "put_back") =>
              /\ build_tasks' = Append(build_tasks, workers[w].task)
              /\ tasks' = tasks
              /\ agents' = agents
              /\ completed_tasks' = completed_tasks]_vars

\* a task that never ran is in the pending list behind a task of lower
\* priority: it was put back
PutBackFrameWitness ==
    \E i, j \in DOMAIN build_tasks :
        /\ i < j
        /\ tasks[build_tasks[i]].priority < tasks[build_tasks[j]].priority
        /\ tasks[build_tasks[j]].status = "pending"
        /\ tasks[build_tasks[j]].start_time = None
        /\ main_pc \in {"wait", "check_agents"}

\* execute_build waits, the pending list is empty and no worker holds a
\* task
WorkDone ==
    /\ main_pc \in {"wait", "check_agents"}
    /\ build_tasks = <<>>
    /\ \A w \in DOMAIN workers : workers[w].task = None

\* C20 (as claimed): in every mode and whatever the registry, once the
\* pending list is empty and no worker executes a task, execute_build
\* eventually sets the stop event and returns.
EngineTerminates ==
    WorkDone ~> (stop_event /\ main_pc \in {"exit0", "exit1"})

\* C21 (as claimed): once the stop event is set, no worker takes a task
\* from the pending list: a worker that holds no task holds none after
\* the step either.
StopPreventsDispatch ==
    [][stop_event =>
          \A w \in DOMAIN workers :
              workers[w].task = None => workers'[w].task = None]_vars

\* C22: a heartbeat pass keeps every agent in the registry, at its place,
\* and changes of an agent at most the status (a stale non-local agent) or
\* last_seen (the stale local agent): name, host, cores and current_task
\* are as before, an agent that is not stale is unchanged, and the
\* pending list, the completed list and every task are unchanged.
HeartbeatFrame ==
    [][HeartbeatPass =>
          /\ DOMAIN agents' = DOMAIN agents
          /\ \A i \in DOMAIN agents :
                /\ agents'[i].name = agents[i].name
                /\ agents'[i].host = agents[i].host
                /\ agents'[i].cores = agents[i].cores
                /\ agents'[i].current_task = agents[i].current_task
                /\ NonLocal(agents[i]) => agents'[i].last_seen = agents[i].last_seen
                /\ ~NonLocal(agents[i]) => agents'[i].status = agents[i].status
                /\ now' - agents[i].last_seen <= 3 * heartbeat_interval =>
                       agents'[i] = agents[i]
          /\ build_tasks' = build_tasks
          /\ completed_tasks' = completed_tasks
          /\ tasks' = tasks]_vars

\* the monitor has marked a non-local agent unavailable in the middle of
\* an execution: the agent still has its current_task, and the task runs
HeartbeatFrameWitness ==
    \E i \in DOMAIN agents :
        /\ NonLocal(agents[i])
        /\ agents[i].status = "unavailable"
        /\ agents[i].current_task # None
        /\ tasks[agents[i].current_task].status = "running"

\* the tasks of the pending list that task t depends on
KnownDeps(t) ==
    {build_graph[t][k] : k \in DOMAIN build_graph[t]} \cap Range(build_tasks)

\* the tasks reached from the set S along at most n dependency edges
RECURSIVE DependsOn(_, _)
DependsOn(S, n) ==
    IF n = 0 THEN S
    ELSE DependsOn(S \cup UNION {KnownDeps(t) : t \in S}, n - 1)

\* no task depends on itself, directly or through other tasks
Acyclic ==
    \A t \in Range(build_tasks) : t \notin DependsOn(KnownDeps(t), Len(build_tasks))

\* C23: when the dependencies among the tasks of the list have no cycle,
\* the order _topological_sort returns has every task after every task of
\* the list it depends on (dependency ids that are no task are ignored).
TopologicalOrderValid ==
    Acyclic =>
        LET order == topological_sort(build_tasks, build_graph)
        IN  \A i, j \in DOMAIN order :
                order[j] \in KnownDeps(order[i]) => j < i

\* the plan has been made for the chain A -> B -> C, listed against the
\* order of the dependencies
TopologicalOrderValidWitness ==
    /\ main_pc = "optimized"
    /\ Range(build_tasks) = {"A", "B", "C"}
    /\ build_graph["A"] = <<"B">>
    /\ build_graph["B"] = <<"C">>
    /\ build_graph["C"] = <<>>
    /\ Acyclic

\* C24 (as claimed): the status of every registered agent is idle, busy
\* or unavailable, in every state.
AgentStatusEnum ==
    \A i \in DOMAIN agents : agents[i].status \in {"idle", "busy", "unavailable"}

Engine == main_pc \in {"optimized", "wait", "check_agents", "set_stop", "exit0", "exit1"}

\* the number of places task t is in: positions of the pending list,
\* workers holding it, positions of the completed list
Places(t) ==
    Cardinality({k \in DOMAIN build_tasks : build_tasks[k] = t})
    + Cardinality({w \in DOMAIN workers : workers[w].task = t})
    + Cardinality({k \in DOMAIN completed_tasks : completed_tasks[k] = t})

InCompleted(t) == \E k \in DOMAIN completed_tasks : completed_tasks[k] = t

\* C27: in the execution engine every task of the plan is in exactly one
\* place (the pending list, the hands of one worker, or the completed
\* list), and a task in the completed list stays there: it is not popped
\* or executed again.
TaskConservation ==
    [][Engine' =>
          \A t \in DOMAIN tasks' :
              /\ Places(t)' = 1
              /\ (Engine /\ InCompleted(t)) => InCompleted(t)']_vars

\* one task is completed, one is in a worker's hands after an earlier
\* failure of its own, and one waits in the pending list
TaskConservationWitness ==
    /\ Engine
    /\ \E t1, t2, t3 \in DOMAIN tasks :
          /\ InCompleted(t1)
          /\ Held(t2) /\ history[t2].failed > 0
          /\ \E k \in DOMAIN build_tasks : build_tasks[k] = t3

\* C28 (as claimed): when execute_build finds its finished condition
\* (pending list empty, every agent idle) and goes on to signal stop,
\* every task is in completed_tasks and no worker holds a task.
FinishedMeansCompleted ==
    [][(main_pc = "check_agents" /\ main_pc' = "set_stop") =>
          /\ \A t \in DOMAIN tasks : InCompleted(t)
          /\ \A w \in DOMAIN workers : workers[w].task = None]_vars

\* C29: when every registered agent is idle or busy, a worker that holds
\* a popped task and runs _reserve_agent gets an agent: the call does not
\* return None and the worker does not go on to put the task back.
ReserveFindsAgent ==
    [][\A w \in DOMAIN workers :
          (/\ workers[w].pc = "reserve"
           /\ \A i \in DOMAIN agents : agents[i].status \in {"idle", "busy"}
           /\ w \in DOMAIN workers'
           /\ workers'[w].pc # "reserve")
          => (workers'[w].pc = "start" /\ workers'[w].agent # None)]_vars

\* a worker has just reserved the last idle agent while another worker
\* holds the other agent, no agent being unavailable or active
ReserveFindsAgentWitness ==
    /\ \A i \in DOMAIN agents : agents[i].status = "busy"
    /\ \E w1, w2 \in DOMAIN workers :
          /\ w1 # w2
          /\ workers[w1].pc = "start"
          /\ workers[w2].agent \notin {None, workers[w1].agent}

\* task t has been executed and every execution of it has failed
AlwaysFailed(t) == history[t].failed > 0 /\ ~InCompleted(t)

\* C26 (as claimed): a failed task is re-enqueued after every failure,
\* whatever the number of its failures, and as long as a task has failed
\* in every execution execute_build does not find its finished condition.
UnboundedRetries ==
    [][/\ \A w \in DOMAIN workers :
             (workers[w].pc = "release" /\ ~workers[w].success /\ workers'[w].pc = "loop")
             => \E k \in DOMAIN build_tasks' : build_tasks'[k] = workers[w].task
       /\ (main_pc = "check_agents" /\ main_pc' = "set_stop")
             => \A t \in DOMAIN tasks : ~AlwaysFailed(t)]_vars

\* C30 (as claimed): the total the progress monitor computed at its start
\* is never smaller than a completed count it reads afterwards, and the
\* progress it computes and logs is at most 100 percent.
ProgressAtMostTotal ==
    monitor.pc \in {"loop", "report", "done"} =>
        /\ monitor.completed <= monitor.total_tasks
        /\ monitor.progress <= 100
        /\ monitor.last_progress <= 100

\* agent a has not been seen for more than three heartbeat intervals
Stale(a) == now - a.last_seen > heartbeat_interval * 3

\* C31: _reserve_agent takes an agent only if its status is idle, never an
\* unavailable one; the release block of a worker sets its agent's status
\* to idle whatever it was, so an agent the heartbeat monitor marked
\* unavailable while it was executing is idle again after the release,
\* with the last_seen it had.
ReleaseRevivesUnavailable ==
    [][\A w \in DOMAIN workers :
          /\ (workers[w].pc = "reserve" /\ workers'[w].pc = "start") =>
                 agents[AgentIdx(agents, workers'[w].agent)].status = "idle"
          /\ (workers[w].pc = "release" /\ workers'[w].pc = "loop") =>
                 LET i == AgentIdx(agents, workers[w].agent)
                 IN  /\ agents'[i].status = "idle"
                     /\ agents'[i].last_seen = agents[i].last_seen]_vars

\* a remote agent that went stale and was marked unavailable while it
\* executed a task has been released: it is idle, still stale, and the
\* heartbeat monitor is running
ReleaseRevivesUnavailableWitness ==
    /\ hb_pc = "run"
    /\ \E i \in DOMAIN agents :
          /\ agents[i].host # "localhost"
          /\ agents[i].status = "idle"
          /\ Stale(agents[i])
    /\ completed_tasks # <<>>

\* the tasks that task t lists as dependencies
TaskDeps(t) == Range(tasks[t].dependencies) \cap DOMAIN tasks

\* the tasks reached from the set S along at most n dependency edges of
\* the tasks' own lists
RECURSIVE Reach(_, _)
Reach(S, n) ==
    IF n = 0 THEN S
    ELSE Reach(S \cup UNION {TaskDeps(t) : t \in S}, n - 1)

\* task t depends on itself, directly or through other tasks
OnCycle(t) == t \in Reach(TaskDeps(t), Cardinality(DOMAIN tasks))

\* C32: optimize_build_plan, whose _topological_sort breaks cycles,
\* leaves every task's dependency list as parse_build_tasks made it; a
\* task on a dependency cycle (a task that lists itself included) is not
\* popped by _get_next_task and does not run: it stays pending in the
\* pending list; and while the plan has such a task execute_build does
\* not find its finished condition.
CyclicTaskNeverRuns ==
    [][/\ (main_pc = "parsed" /\ main_pc' = "optimized") =>
             \A t \in DOMAIN tasks :
                 /\ tasks'[t].dependencies = tasks[t].dependencies
                 /\ tasks'[t].dependencies = build_graph[t]
       /\ \A t \in DOMAIN tasks :
             (OnCycle(t) /\ Engine') =>
                 /\ \A w \in DOMAIN workers' : workers'[w].task # t
                 /\ tasks'[t].status = "pending"
                 /\ \E k \in DOMAIN build_tasks' : build_tasks'[k] = t
       /\ (\E t \in DOMAIN tasks : OnCycle(t)) =>
             ~(main_pc = "check_agents" /\ main_pc' = "set_stop")]_vars

\* every task that is on no cycle has completed, every agent is idle
\* again, and the tasks on a cycle are what is left of the pending list
\* while execute_build still waits
CyclicTaskNeverRunsWitness ==
    /\ main_pc = "wait"
    /\ ~stop_event
    /\ completed_tasks # <<>>
    /\ build_tasks # <<>>
    /\ \A t \in DOMAIN tasks : OnCycle(t) \/ InCompleted(t)
    /\ \A i \in DOMAIN agents : agents[i].status = "idle"
    /\ \E w \in DOMAIN workers : workers[w].pc = "loop"

====
